---- MODULE Spec2Model ----
(***************************************************************************)
(* Model of the server handlers of tym-productivity: the relational store  *)
(* (tasks, events, time blocks, Pomodoro sessions, productivity stats) and *)
(* the handlers that write it.  Each handler is one atomic action unless   *)
(* a specification below says otherwise (handlers run one at a time).      *)
(***************************************************************************)
EXTENDS Integers, FiniteSets, Sequences, TLC

VARIABLES tasks, events, timeBlocks, reminders, sessions, stats, seq, now, last, hist,
          reqs, client

(* tasks .. stats are the tables of db/schema.ts (the columns the handlers
   read or write), seq the next value of each table's serial id, now the
   clock, last the outcome of the latest call (which handler, which error or
   "none").  hist is a history variable no handler reads: the stats rows the
   behaviour started with, the completing updatePomodoroSession calls made
   so far and the backup identifiers handed out so far.  reqs holds the
   requests that are between two of their statements (their local
   variables and the statement they are at); client is a device that
   synchronises: the watermark it was last given and the row versions it
   has received. *)
vars == <<tasks, events, timeBlocks, reminders, sessions, stats, seq, now, last, hist,
          reqs, client>>

(***************************************************************************)
(* Bounds of the model.                                                    *)
(***************************************************************************)
NumUsers == 2
MaxTasks == 1
MaxEvents == 1
MaxBlocks == 2
MaxSessions == 2
MaxCompletions == 3
MaxTime == 2
MaxDur == 2
MaxNow == 2
MaxReminders == 2
MaxBackups == 2
MaxRequests == 2

(* Clock ticks in a day: `today.setHours(0, 0, 0, 0)` and SQL DATE() cut a
   timestamp down to its day. *)
TicksPerDay == 2

(* SQL NULL of a nullable column, and JavaScript's undefined of an optional input field. *)
NULL == -1
UNDEF == -2

(* Rows of usersTable.  No handler under src/ inserts or deletes users; the
   tests insert them directly, so the table is populated from the start. *)
Users == 1 .. NumUsers

(* Ids a caller may pass.  0 is the id of no row (serial ids start at 1); an id
   up to the bound is the id of no row before its insert and after its delete. *)
UserIds == 0 .. NumUsers
TaskRefs == {NULL} \cup (0 .. MaxTasks)
EventRefs == {NULL} \cup (0 .. MaxEvents)
Times == 0 .. MaxTime

(* JavaScript truthiness of an optional numeric id: `if (input.task_id)`. *)
Truthy(x) == x # NULL /\ x # UNDEF /\ x # 0

(***************************************************************************)
(* The store after the schema is created: every table but users is empty,  *)
(* every serial sequence starts at 1.                                      *)
(***************************************************************************)
InitSeq == [tasks |-> 1, events |-> 1, timeBlocks |-> 1, sessions |-> 1, stats |-> 1, reminders |-> 1]

InitStore ==
    /\ tasks = {}
    /\ events = {}
    /\ timeBlocks = {}
    /\ reminders = {}
    /\ sessions = {}
    /\ seq = InitSeq
    /\ now = 0
    /\ last = [op |-> "none", error |-> "none"]
    /\ hist = [seed |-> {}, calls |-> {}, backups |-> <<>>]
    /\ reqs = {}
    /\ client = [lastSyncTimestamp |-> UNDEF, received |-> {}]

Init ==
    /\ InitStore
    /\ stats = {}

(***************************************************************************)
(* Foreign keys of schema.ts: a row may be inserted only if what it refers *)
(* to exists; NULL references nothing.                                     *)
(***************************************************************************)
TaskIds == {t.id : t \in tasks}
EventIds == {e.id : e \in events}

FkUser(u) == u \in Users
FkTask(t) == t = NULL \/ t \in TaskIds
FkEvent(e) == e = NULL \/ e \in EventIds

(***************************************************************************)
(* createTask: inserts a pending task with no actual duration.             *)
(***************************************************************************)
CreateTask(u) ==
    /\ FkUser(u) => seq.tasks <= MaxTasks
    /\ IF FkUser(u)
       THEN /\ tasks' = tasks \cup {[id |-> seq.tasks, user_id |-> u, actual_duration |-> NULL,
                                     updated_at |-> now]}
            /\ seq' = [seq EXCEPT !.tasks = @ + 1]
            /\ last' = [op |-> "createTask", error |-> "none"]
       ELSE /\ UNCHANGED <<tasks, seq>>
            /\ last' = [op |-> "createTask", error |-> "user_not_found"]
    /\ UNCHANGED <<events, timeBlocks, reminders, sessions, stats, now, hist, reqs, client>>

(***************************************************************************)
(* createEvent                                                             *)
(***************************************************************************)
createEventError(input) ==
    IF input.user_id \notin Users THEN "user_not_found"
    ELSE IF input.start_time >= input.end_time THEN "invalid_range"
    ELSE "none"

CreateEvent(input) ==
    LET err == createEventError(input) IN
    /\ err = "none" => seq.events <= MaxEvents
    /\ IF err = "none"
       THEN /\ events' = events \cup {[id |-> seq.events, user_id |-> input.user_id,
                                       start_time |-> input.start_time, end_time |-> input.end_time,
                                       updated_at |-> now]}
            /\ seq' = [seq EXCEPT !.events = @ + 1]
       ELSE UNCHANGED <<events, seq>>
    /\ last' = [op |-> "createEvent", error |-> err]
    /\ UNCHANGED <<tasks, timeBlocks, reminders, sessions, stats, now, hist, reqs, client>>

(***************************************************************************)
(* createTimeBlock                                                         *)
(***************************************************************************)
(* The WHERE clause of the conflict query: rows of the same user whose
   interval meets the new one, start < new.end AND end > new.start. *)
ConflictsStartInside(b, input) ==
    /\ b.user_id = input.user_id
    /\ b.start_time <= input.start_time
    /\ b.end_time > input.start_time

ConflictsClosed(b, input) ==
    /\ b.user_id = input.user_id
    /\ b.start_time <= input.end_time
    /\ b.end_time >= input.start_time

ConflictsAnyUser(b, input) ==
    /\ b.start_time < input.end_time
    /\ b.end_time > input.start_time

Conflicts(b, input) ==
    /\ b.user_id = input.user_id
    /\ b.start_time < input.end_time
    /\ b.end_time > input.start_time

conflictingBlocks(input) == {b \in timeBlocks : Conflicts(b, input)}

taskExistsAnyOwner(input) == {t \in tasks : t.id = input.task_id}

taskExists(input) == {t \in tasks : t.id = input.task_id /\ t.user_id = input.user_id}

eventExists(input) == {e \in events : e.id = input.event_id /\ e.user_id = input.user_id}

TimeRangeInvalidStrict(input) == input.end_time < input.start_time

TimeRangeInvalid(input) == input.end_time <= input.start_time

(* The checks of the handler in the order the code makes them; the first
   that fails throws.  The insert itself is rejected by the store when a
   foreign key does not hold (an id of 0 skips the handler's own check). *)
createTimeBlockError(input) ==
    IF input.user_id \notin Users THEN "user_not_found"
    ELSE IF Truthy(input.task_id) /\ taskExists(input) = {} THEN "task_not_found"
    ELSE IF Truthy(input.event_id) /\ eventExists(input) = {} THEN "event_not_found"
    ELSE IF TimeRangeInvalid(input) THEN "invalid_range"
    ELSE IF conflictingBlocks(input) # {} THEN "conflict"
    ELSE IF ~(FkTask(input.task_id) /\ FkEvent(input.event_id)) THEN "foreign_key"
    ELSE "none"

NewBlock(input) ==
    [id |-> seq.timeBlocks, user_id |-> input.user_id, task_id |-> input.task_id,
     event_id |-> input.event_id, start_time |-> input.start_time, end_time |-> input.end_time,
     created_at |-> now]

(* The time-block table after createTimeBlock(input): the insert is the
   handler's only write and is reached only when no check has thrown. *)
timeBlocksAfterCreate(input) ==
    IF createTimeBlockError(input) = "none"
    THEN timeBlocks \cup {NewBlock(input)}
    ELSE timeBlocks

CreateTimeBlock(input) ==
    LET err == createTimeBlockError(input) IN
    /\ err \in {"none", "foreign_key"} => seq.timeBlocks <= MaxBlocks
    /\ timeBlocks' = timeBlocksAfterCreate(input)
    /\ IF err \in {"none", "foreign_key"}
       THEN seq' = [seq EXCEPT !.timeBlocks = @ + 1]
       ELSE seq' = seq
    /\ last' = [op |-> "createTimeBlock", error |-> err]
    /\ UNCHANGED <<tasks, events, reminders, sessions, stats, now, hist, reqs, client>>

(***************************************************************************)
(* deleteTask: checks ownership, deletes the task's reminders and time     *)
(* blocks, then the task; the store's ON DELETE CASCADE removes the        *)
(* Pomodoro sessions that refer to it.                                     *)
(***************************************************************************)
existingTaskAnyUser(taskId, userId) == {t \in tasks : t.id = taskId}

existingTask(taskId, userId) == {t \in tasks : t.id = taskId /\ t.user_id = userId}

deleteTaskError(taskId, userId) ==
    IF existingTask(taskId, userId) = {} THEN "task_not_found" ELSE "none"

remindersAfterDeleteTaskOfUser(taskId, userId) ==
    IF deleteTaskError(taskId, userId) = "none"
    THEN {r \in reminders : ~(r.task_id = taskId /\ r.user_id = userId)}
    ELSE reminders

remindersAfterDeleteTask(taskId, userId) ==
    IF deleteTaskError(taskId, userId) = "none"
    THEN {r \in reminders : r.task_id # taskId}
    ELSE reminders

timeBlocksAfterDeleteTask(taskId, userId) ==
    IF deleteTaskError(taskId, userId) = "none"
    THEN {b \in timeBlocks : b.task_id # taskId}
    ELSE timeBlocks

tasksAfterDeleteTask(taskId, userId) ==
    IF deleteTaskError(taskId, userId) = "none"
    THEN {t \in tasks : ~(t.id = taskId /\ t.user_id = userId)}
    ELSE tasks

(* pomodoro_sessions.task_id is declared ON DELETE CASCADE: the store
   removes the task's sessions when the task row goes. *)
sessionsAfterDeleteTask(taskId, userId) ==
    IF deleteTaskError(taskId, userId) = "none"
    THEN {s \in sessions : s.task_id # taskId}
    ELSE sessions

DeleteTask(taskId, userId) ==
    /\ reminders' = remindersAfterDeleteTask(taskId, userId)
    /\ timeBlocks' = timeBlocksAfterDeleteTask(taskId, userId)
    /\ tasks' = tasksAfterDeleteTask(taskId, userId)
    /\ sessions' = sessionsAfterDeleteTask(taskId, userId)
    /\ last' = [op |-> "deleteTask", error |-> deleteTaskError(taskId, userId)]
    /\ UNCHANGED <<events, stats, seq, now, hist, reqs, client>>

(***************************************************************************)
(* deleteEvent: one DELETE restricted to the owner; reminders and time     *)
(* blocks of the event go with it by ON DELETE CASCADE.  Never throws on a *)
(* missing event: it reports success = false.                              *)
(***************************************************************************)
deletedEventsAnyUser(eventId, userId) == {e \in events : e.id = eventId}

(* The rows the DELETE ... RETURNING gives back. *)
deletedEvents(eventId, userId) ==
    {e \in events : e.id = eventId /\ e.user_id = userId}

deleteEventSuccess(eventId, userId) == deletedEvents(eventId, userId) # {}

eventsAfterDeleteEvent(eventId, userId) == events \ deletedEvents(eventId, userId)

remindersAfterDeleteEvent(eventId, userId) ==
    {r \in reminders : r.event_id \notin {e.id : e \in deletedEvents(eventId, userId)}}

timeBlocksAfterDeleteEvent(eventId, userId) ==
    {b \in timeBlocks : b.event_id \notin {e.id : e \in deletedEvents(eventId, userId)}}

DeleteEvent(eventId, userId) ==
    /\ events' = eventsAfterDeleteEvent(eventId, userId)
    /\ reminders' = remindersAfterDeleteEvent(eventId, userId)
    /\ timeBlocks' = timeBlocksAfterDeleteEvent(eventId, userId)
    /\ last' = [op |-> "deleteEvent",
                error |-> IF deleteEventSuccess(eventId, userId) THEN "none" ELSE "no_success"]
    /\ UNCHANGED <<tasks, sessions, stats, seq, now, hist, reqs, client>>

(***************************************************************************)
(* updateEvent: writes the fields the input provides and updated_at to the *)
(* row with the given id.  Neither the owner nor the order of the two      *)
(* times is examined.                                                      *)
(***************************************************************************)
updateEventError(input) ==
    IF \E e \in events : e.id = input.id THEN "none" ELSE "event_not_found"

eventsAfterUpdate(input) ==
    {IF e.id = input.id
     THEN [e EXCEPT !.start_time = IF input.start_time # UNDEF THEN input.start_time ELSE @,
                    !.end_time = IF input.end_time # UNDEF THEN input.end_time ELSE @,
                    !.updated_at = now]
     ELSE e : e \in events}

UpdateEvent(input) ==
    /\ events' = eventsAfterUpdate(input)
    /\ last' = [op |-> "updateEvent", error |-> updateEventError(input)]
    /\ UNCHANGED <<tasks, timeBlocks, reminders, sessions, stats, seq, now, hist, reqs, client>>

EventUpdates ==
    [id : 1 .. (MaxEvents + 1), start_time : {UNDEF} \cup Times, end_time : {UNDEF} \cup Times]

(***************************************************************************)
(* createReminder: exactly one of task_id and event_id must be given; the  *)
(* referenced row must exist (its owner is not compared); the insert is    *)
(* subject to the store's foreign keys.                                    *)
(***************************************************************************)
linkInvalidNeitherOnly(input) == ~Truthy(input.task_id) /\ ~Truthy(input.event_id)

linkInvalid(input) ==
    \/ Truthy(input.task_id) /\ Truthy(input.event_id)
    \/ ~Truthy(input.task_id) /\ ~Truthy(input.event_id)

createReminderError(input) ==
    IF linkInvalid(input) THEN "validation"
    ELSE IF Truthy(input.task_id) /\ ~ \E t \in tasks : t.id = input.task_id
    THEN "task_not_found"
    ELSE IF Truthy(input.event_id) /\ ~ \E e \in events : e.id = input.event_id
    THEN "event_not_found"
    ELSE IF ~(FkUser(input.user_id) /\ FkTask(input.task_id) /\ FkEvent(input.event_id))
    THEN "foreign_key"
    ELSE "none"

NewReminder(input) ==
    [id |-> seq.reminders, user_id |-> input.user_id, task_id |-> input.task_id,
     event_id |-> input.event_id]

remindersAfterCreate(input) ==
    IF createReminderError(input) = "none"
    THEN reminders \cup {NewReminder(input)}
    ELSE reminders

CreateReminder(input) ==
    LET err == createReminderError(input) IN
    /\ err \in {"none", "foreign_key"} => seq.reminders <= MaxReminders
    /\ reminders' = remindersAfterCreate(input)
    /\ IF err \in {"none", "foreign_key"}
       THEN seq' = [seq EXCEPT !.reminders = @ + 1]
       ELSE seq' = seq
    /\ last' = [op |-> "createReminder", error |-> err]
    /\ UNCHANGED <<tasks, events, timeBlocks, sessions, stats, now, hist, reqs, client>>

ReminderInputs == [user_id : UserIds, task_id : TaskRefs, event_id : EventRefs]

(***************************************************************************)
(* The time-block specification: handlers called one at a time.            *)
(***************************************************************************)
TimeBlockInputs ==
    [user_id : UserIds, task_id : TaskRefs, event_id : EventRefs, start_time : Times, end_time : Times]

EventInputs == [user_id : UserIds, start_time : Times, end_time : Times]

(* The time-block handlers never read an event's times: one valid and one
   invalid range are enough here. *)
EventInputsTB == {i \in EventInputs : i.start_time = 0 /\ i.end_time \in {0, 1}}

NextTB ==
    \/ \E u \in UserIds : CreateTask(u)
    \/ \E input \in EventInputsTB : CreateEvent(input)
    \/ \E input \in TimeBlockInputs : CreateTimeBlock(input)
    \/ \E t \in TaskRefs \ {NULL}, u \in UserIds : DeleteTask(t, u)
    \/ \E e \in EventRefs \ {NULL}, u \in UserIds : DeleteEvent(e, u)

SpecTB == Init /\ [][NextTB]_vars

(***************************************************************************)
(* The clock: `new Date()` and the store's defaultNow() read it.           *)
(***************************************************************************)
Tick(d) ==
    /\ now + d <= MaxNow
    /\ now' = now + d
    /\ UNCHANGED <<tasks, events, timeBlocks, reminders, sessions, stats, seq, last, hist, reqs, client>>

DayOf(t) == t \div TicksPerDay

Today == DayOf(now)

(***************************************************************************)
(* createPomodoroSession: a plain insert, status 'running'; only the       *)
(* store's foreign keys (user, task) can reject it.                        *)
(***************************************************************************)
createPomodoroSessionError(input) ==
    IF FkUser(input.user_id) /\ FkTask(input.task_id) THEN "none" ELSE "foreign_key"

CreatePomodoroSession(input) ==
    LET err == createPomodoroSessionError(input) IN
    /\ seq.sessions <= MaxSessions
    /\ IF err = "none"
       THEN sessions' = sessions \cup
                {[id |-> seq.sessions, user_id |-> input.user_id, task_id |-> input.task_id,
                  duration |-> input.duration, status |-> "running", completed_at |-> NULL,
                  created_at |-> now]}
       ELSE sessions' = sessions
    /\ seq' = [seq EXCEPT !.sessions = @ + 1]
    /\ last' = [op |-> "createPomodoroSession", error |-> err]
    /\ UNCHANGED <<tasks, events, timeBlocks, reminders, stats, now, hist, reqs, client>>

(***************************************************************************)
(* updatePomodoroSession                                                   *)
(***************************************************************************)
existingSessionsAny(input) == sessions

existingSessions(input) == {s \in sessions : s.id = input.id}

(* updateData.completed_at: the caller's value when one is given (null
   included), the current time when the status is 'completed' and none (or
   null) is given, and otherwise the column is left as it is. *)
completedAtAfterAsGiven(session, input) ==
    IF input.completed_at # UNDEF THEN input.completed_at
    ELSE IF input.status = "completed" THEN now
    ELSE session.completed_at

completedAtAfter(existingSession, input) ==
    IF input.status = "completed" /\ input.completed_at \in {UNDEF, NULL} THEN now
    ELSE IF input.completed_at # UNDEF THEN input.completed_at
    ELSE existingSession.completed_at

updatedSession(existingSession, input) ==
    [existingSession EXCEPT !.status = input.status,
                            !.completed_at = completedAtAfter(existingSession, input)]

(* The rows the upsert's SELECT returns: the owner's rows whose date is
   today.  Both sides of the comparison go through DATE(), so rows are
   matched by day; the stored date is kept as its day. *)
existingStatsExactTime(existingSession) ==
    {r \in stats : r.user_id = existingSession.user_id /\ r.date = now}

existingStats(existingSession) ==
    {r \in stats : r.user_id = existingSession.user_id /\ r.date = Today}

statsAfterUpdateOverwrite(existingSession, row) ==
    (stats \ {row}) \cup
        {[row EXCEPT !.total_focus_time = existingSession.duration,
                     !.pomodoro_sessions = @ + 1]}

statsAfterUpdate(existingSession, row) ==
    (stats \ {row}) \cup
        {[row EXCEPT !.total_focus_time = @ + existingSession.duration,
                     !.pomodoro_sessions = @ + 1]}

statsAfterInsert(existingSession) ==
    stats \cup {[id |-> seq.stats, user_id |-> existingSession.user_id, date |-> Today,
                 tasks_completed |-> 0, tasks_created |-> 0,
                 total_focus_time |-> existingSession.duration, pomodoro_sessions |-> 1,
                 events_attended |-> 0]}

(* The stats tables the upsert can leave: the row it updates is the first
   row its SELECT returned, and a SELECT without ORDER BY may return the
   matching rows in any order. *)
statsAfterUpsert(existingSession) ==
    IF existingStats(existingSession) # {}
    THEN {statsAfterUpdate(existingSession, row) : row \in existingStats(existingSession)}
    ELSE {statsAfterInsert(existingSession)}

Coalesce(x, d) == IF x = NULL THEN d ELSE x

tasksAfterCompleteOverwrite(existingSession) ==
    IF Truthy(existingSession.task_id)
    THEN {IF t.id = existingSession.task_id
          THEN [t EXCEPT !.actual_duration = existingSession.duration, !.updated_at = now]
          ELSE t : t \in tasks}
    ELSE tasks

tasksAfterComplete(existingSession) ==
    IF Truthy(existingSession.task_id)
    THEN {IF t.id = existingSession.task_id
          THEN [t EXCEPT !.actual_duration = Coalesce(@, 0) + existingSession.duration,
                         !.updated_at = now]
          ELSE t : t \in tasks}
    ELSE tasks

(* The handler throws before any write when its SELECT by id is empty. *)
updatePomodoroSessionError(input) ==
    IF existingSessions(input) = {} THEN "session_not_found" ELSE "none"

(* existingSessions[0]: ids are a primary key, so at most one row matches. *)
existingSession(input) == CHOOSE s \in existingSessions(input) : TRUE

(* The UPDATE of the session row: it is not conditioned on the stored
   status, only on the id. *)
sessionsAfterUpdateSession(input) ==
    IF updatePomodoroSessionError(input) = "none"
    THEN {IF s.id = input.id THEN updatedSession(s, input) ELSE s : s \in sessions}
    ELSE sessions

aggregatesAlways(input) == TRUE

(* The aggregation branch is entered on the status of the input alone. *)
aggregates(input) == input.status = "completed"

(* The stats tables and the task table the call can leave. *)
statsAfterUpdateSession(input) ==
    IF updatePomodoroSessionError(input) = "none" /\ aggregates(input)
    THEN statsAfterUpsert(existingSession(input))
    ELSE {stats}

tasksAfterUpdateSession(input) ==
    IF updatePomodoroSessionError(input) = "none" /\ aggregates(input)
    THEN tasksAfterComplete(existingSession(input))
    ELSE tasks

UpdatePomodoroSession(input) ==
    LET err == updatePomodoroSessionError(input)
        adds == err = "none" /\ aggregates(input)
    IN
    /\ adds => Cardinality(hist.calls) < MaxCompletions
    /\ sessions' = sessionsAfterUpdateSession(input)
    /\ stats' \in statsAfterUpdateSession(input)
    /\ seq' = IF adds /\ existingStats(existingSession(input)) = {}
              THEN [seq EXCEPT !.stats = @ + 1] ELSE seq
    /\ tasks' = tasksAfterUpdateSession(input)
    /\ hist' = IF adds
               THEN [hist EXCEPT !.calls = @ \cup
                        {[id |-> input.id, user_id |-> existingSession(input).user_id,
                          duration |-> existingSession(input).duration, day |-> Today,
                          nth |-> Cardinality({c \in @ : c.id = input.id}) + 1]}]
               ELSE hist
    /\ last' = [op |-> "updatePomodoroSession", error |-> err]
    /\ UNCHANGED <<events, timeBlocks, reminders, now, reqs, client>>

(***************************************************************************)
(* The Pomodoro specification: handlers called one at a time.  The stats   *)
(* table starts empty, or with one row written earlier for user 1's first  *)
(* day.                                                                    *)
(***************************************************************************)
SeedRow ==
    [id |-> 1, user_id |-> 1, date |-> 0, tasks_completed |-> 2, tasks_created |-> 3,
     total_focus_time |-> 50, pomodoro_sessions |-> 2, events_attended |-> 1]

InitPomo ==
    /\ tasks = {}
    /\ events = {}
    /\ timeBlocks = {}
    /\ reminders = {}
    /\ sessions = {}
    /\ now = 0
    /\ last = [op |-> "none", error |-> "none"]
    /\ \/ stats = {} /\ seq = InitSeq
       \/ stats = {SeedRow} /\ seq = [InitSeq EXCEPT !.stats = 2]
    /\ hist = [seed |-> stats, calls |-> {}, backups |-> <<>>]
    /\ reqs = {}
    /\ client = [lastSyncTimestamp |-> UNDEF, received |-> {}]

SessionInputs == [user_id : UserIds, task_id : TaskRefs, duration : 1 .. MaxDur]

Statuses == {"running", "paused", "completed", "cancelled"}

(* completed_at is optional and nullable; 0 stands for a date the caller supplies. *)
SessionUpdates ==
    [id : 1 .. (MaxSessions + 1), status : Statuses, completed_at : {UNDEF, NULL, 0}]

(* The updates of the aggregation path: a session is paused or completed (and
   so completed again after a pause), with no completed_at supplied. *)
CompletionUpdates ==
    {i \in SessionUpdates : i.completed_at = UNDEF /\ i.status \in {"paused", "completed"}}

(* Between two calls the clock stays or moves on to the next day. *)
NextPomo ==
    \/ Tick(TicksPerDay)
    \/ \E u \in UserIds : CreateTask(u)
    \/ \E input \in SessionInputs : CreatePomodoroSession(input)
    \/ \E input \in CompletionUpdates : UpdatePomodoroSession(input)
    \/ \E t \in TaskRefs \ {NULL}, u \in UserIds : DeleteTask(t, u)

SpecPomo == InitPomo /\ [][NextPomo]_vars

(***************************************************************************)
(* The session life-cycle specification: every status and every form of    *)
(* completed_at, on sessions of one length, with the clock moving between  *)
(* calls.                                                                  *)
(***************************************************************************)
SessionInputsLife == {i \in SessionInputs : i.duration = 1 /\ i.user_id = 1}

NextLife ==
    \/ Tick(TicksPerDay)
    \/ \E u \in UserIds : CreateTask(u)
    \/ \E input \in SessionInputsLife : CreatePomodoroSession(input)
    \/ \E input \in SessionUpdates : UpdatePomodoroSession(input)

SpecLife == Init /\ [][NextLife]_vars

(***************************************************************************)
(* The deletion specification: tasks and events with reminders, time       *)
(* blocks and sessions attached, created and deleted one call at a time.   *)
(* Time blocks take one of two adjacent slots and sessions one length.     *)
(***************************************************************************)
TimeBlockInputsDel ==
    {i \in TimeBlockInputs :
        i.start_time = 0 /\ i.end_time = 1 /\ i.user_id # 0 /\ i.task_id # 0 /\ i.event_id # 0}

SessionInputsDel == {i \in SessionInputsLife : i.task_id # 0}

ReminderInputsDel == {i \in ReminderInputs : i.user_id # 0}

NextDel ==
    \/ \E u \in UserIds : CreateTask(u)
    \/ \E input \in EventInputsTB : CreateEvent(input)
    \/ \E input \in ReminderInputsDel : CreateReminder(input)
    \/ \E input \in TimeBlockInputsDel : CreateTimeBlock(input)
    \/ \E input \in SessionInputsDel : CreatePomodoroSession(input)
    \/ \E t \in TaskRefs \ {NULL}, u \in UserIds : DeleteTask(t, u)
    \/ \E e \in EventRefs \ {NULL}, u \in UserIds : DeleteEvent(e, u)

SpecDel == Init /\ [][NextDel]_vars

(***************************************************************************)
(* syncUserData: four SELECTs restricted to the user and, when a           *)
(* watermark is given, to rows changed (tasks, events) or created (time    *)
(* blocks, sessions) strictly after it; the new watermark is the time read *)
(* at the start of the call.  A Date is always truthy, so the watermark    *)
(* applies whenever it is given.                                           *)
(***************************************************************************)
NewerInclusive(t, lastSyncTimestamp) == lastSyncTimestamp = UNDEF \/ t >= lastSyncTimestamp

Newer(t, lastSyncTimestamp) == lastSyncTimestamp = UNDEF \/ t > lastSyncTimestamp

syncUserData(userId, lastSyncTimestamp) ==
    [tasks |-> {t \in tasks :
                    t.user_id = userId /\ Newer(t.updated_at, lastSyncTimestamp)},
     events |-> {e \in events :
                    e.user_id = userId /\ Newer(e.updated_at, lastSyncTimestamp)},
     timeBlocks |-> {b \in timeBlocks :
                    b.user_id = userId /\ Newer(b.created_at, lastSyncTimestamp)},
     pomodoroSessions |-> {p \in sessions :
                    p.user_id = userId /\ Newer(p.created_at, lastSyncTimestamp)},
     lastSyncTimestamp |-> now]

SyncUserData(userId, lastSyncTimestamp) ==
    /\ last' = [op |-> "syncUserData", error |-> "none",
                input |-> [userId |-> userId, lastSyncTimestamp |-> lastSyncTimestamp],
                result |-> syncUserData(userId, lastSyncTimestamp)]
    /\ UNCHANGED <<tasks, events, timeBlocks, reminders, sessions, stats, seq, now, hist, reqs, client>>

(***************************************************************************)
(* The synchronisation specification: rows of both users are created and   *)
(* changed while the clock moves, and either user, or an unknown one,      *)
(* synchronises with any watermark or none.                                *)
(***************************************************************************)
Watermarks == {UNDEF} \cup (0 .. MaxNow)

EventInputsSync == {i \in EventInputsTB : i.user_id # 0 /\ i.end_time = 1}

TimeBlockInputsSync == {i \in TimeBlockInputsDel : i.task_id = NULL /\ i.event_id = NULL}

SessionInputsSync ==
    {i \in SessionInputs : i.user_id # 0 /\ i.task_id = NULL /\ i.duration = 1}

(* An edit of a field other than the times: only updated_at moves. *)
EventUpdatesSync == {i \in EventUpdates : i.start_time = UNDEF /\ i.end_time = UNDEF}

NextSync ==
    \/ Tick(1)
    \/ \E u \in Users : CreateTask(u)
    \/ \E input \in EventInputsSync : CreateEvent(input)
    \/ \E input \in EventUpdatesSync : UpdateEvent(input)
    \/ \E input \in TimeBlockInputsSync : CreateTimeBlock(input)
    \/ \E input \in SessionInputsSync : CreatePomodoroSession(input)
    \/ \E u \in Users, w \in Watermarks : SyncUserData(u, w)

SpecSync == Init /\ [][NextSync]_vars

(***************************************************************************)
(* backupUserData: verifies the user, reads the user's rows of the six     *)
(* tables one SELECT after the other, and returns them with the creation   *)
(* time and an identifier made of the user id and the clock reading.       *)
(* Here the whole call is one step.                                        *)
(***************************************************************************)
backupUserDataError(userId) == IF userId \in Users THEN "none" ELSE "user_not_found"

rowsOfAnyUser(table, userId) == table

(* SELECT ... WHERE user_id = userId *)
rowsOf(table, userId) == {r \in table : r.user_id = userId}

(* `backup_${userId}_${Date.now()}`: the text determines, and is determined
   by, the pair of the user id and the clock reading. *)
backupId(userId, at) == <<"backup", userId, at>>

backupUserData(userId) ==
    [success |-> TRUE,
     backupId |-> backupId(userId, now),
     data |-> [userId |-> userId,
               data |-> [tasks |-> rowsOf(tasks, userId),
                         events |-> rowsOf(events, userId),
                         timeBlocks |-> rowsOf(timeBlocks, userId),
                         pomodoroSessions |-> rowsOf(sessions, userId),
                         productivityStats |-> rowsOf(stats, userId),
                         reminders |-> rowsOf(reminders, userId)],
               createdAt |-> now]]

BackupUserData(userId) ==
    LET err == backupUserDataError(userId) IN
    /\ err = "none" => Len(hist.backups) < MaxBackups
    /\ IF err = "none"
       THEN /\ last' = [op |-> "backupUserData", error |-> err, input |-> userId,
                        result |-> backupUserData(userId)]
            /\ hist' = [hist EXCEPT !.backups = Append(@, backupId(userId, now))]
       ELSE /\ last' = [op |-> "backupUserData", error |-> err, input |-> userId]
            /\ hist' = hist
    /\ UNCHANGED <<tasks, events, timeBlocks, reminders, sessions, stats, seq, now, reqs, client>>

(***************************************************************************)
(* The backup specification: rows of both users in the six tables (the     *)
(* stats table as the store was left: empty or with one row), backups      *)
(* called one at a time while the clock moves.                             *)
(***************************************************************************)
ReminderInputsBackup ==
    {i \in ReminderInputs : i.user_id = 1 /\ Truthy(i.task_id) /\ i.event_id = NULL}

EventInputsBackup == {i \in EventInputsSync : i.user_id = 1}

NextBackup ==
    \/ Tick(TicksPerDay)
    \/ CreateTask(1)
    \/ \E input \in EventInputsBackup : CreateEvent(input)
    \/ \E input \in TimeBlockInputsSync : CreateTimeBlock(input)
    \/ \E input \in SessionInputsSync : CreatePomodoroSession(input)
    \/ \E input \in ReminderInputsBackup : CreateReminder(input)
    \/ \E u \in UserIds : BackupUserData(u)

SpecBackup == InitPomo /\ [][NextBackup]_vars

(***************************************************************************)
(* Requests that overlap in time.  Each `await` of a handler is a point    *)
(* where another request may run; no handler opens a transaction or takes  *)
(* a lock.  A request between two statements is a record in reqs with the  *)
(* statement it is at (pc) and what it has read so far; it stays there,    *)
(* at "done", once it has returned or thrown.                              *)
(***************************************************************************)
NewRid == Cardinality(reqs) + 1

Finish(r, fields) == (reqs \ {r}) \cup {fields}

(***************************************************************************)
(* createTimeBlock in two steps: the checks up to and including the        *)
(* overlap query, then the insert.  The insert consults only the store's   *)
(* foreign keys: time_blocks has no constraint on intervals.               *)
(***************************************************************************)
createTimeBlockCheckError(input) ==
    IF createTimeBlockError(input) = "foreign_key" THEN "none" ELSE createTimeBlockError(input)

insertBlockErrorRechecking(input) ==
    IF conflictingBlocks(input) # {} THEN "conflict"
    ELSE IF FkUser(input.user_id) /\ FkTask(input.task_id) /\ FkEvent(input.event_id)
    THEN "none" ELSE "foreign_key"

insertBlockError(input) ==
    IF FkUser(input.user_id) /\ FkTask(input.task_id) /\ FkEvent(input.event_id)
    THEN "none" ELSE "foreign_key"

CreateTimeBlockCheck(input) ==
    LET err == createTimeBlockCheckError(input) IN
    /\ NewRid <= MaxRequests
    /\ IF err = "none"
       THEN /\ reqs' = reqs \cup {[rid |-> NewRid, op |-> "createTimeBlock", pc |-> "insert",
                                   input |-> input, checkedAt |-> seq.timeBlocks,
                                   error |-> "none", insertAt |-> NULL]}
            /\ last' = last
       ELSE /\ reqs' = reqs
            /\ last' = [op |-> "createTimeBlock", error |-> err]
    /\ UNCHANGED <<tasks, events, timeBlocks, reminders, sessions, stats, seq, now, hist, client>>

CreateTimeBlockInsert(r) ==
    LET err == insertBlockError(r.input) IN
    /\ r.op = "createTimeBlock"
    /\ r.pc = "insert"
    /\ seq.timeBlocks <= MaxBlocks
    /\ timeBlocks' = IF err = "none" THEN timeBlocks \cup {NewBlock(r.input)} ELSE timeBlocks
    /\ seq' = [seq EXCEPT !.timeBlocks = @ + 1]
    /\ reqs' = Finish(r, [r EXCEPT !.pc = "done", !.error = err, !.insertAt = seq.timeBlocks])
    /\ last' = [op |-> "createTimeBlock", error |-> err]
    /\ UNCHANGED <<tasks, events, reminders, sessions, stats, now, hist, client>>

(* Requests for time blocks arrive while others are between their check and
   their insert; a task comes and goes meanwhile. *)
TimeBlockInputsRace == {i \in TimeBlockInputs : i.user_id # 0 /\ i.task_id # 0 /\ i.event_id = NULL}

NextRaceTB ==
    \/ \E u \in Users : CreateTask(u)
    \/ \E t \in TaskRefs \ {NULL}, u \in Users : DeleteTask(t, u)
    \/ \E input \in TimeBlockInputsRace : CreateTimeBlockCheck(input)
    \/ \E r \in reqs : CreateTimeBlockInsert(r)

SpecRaceTB == Init /\ [][NextRaceTB]_vars

(***************************************************************************)
(* updatePomodoroSession statement by statement: the SELECT of the         *)
(* session, the UPDATE of the session, the SELECT of today's stats rows,   *)
(* the UPDATE or INSERT of the stats row, the UPDATE of the task.  A       *)
(* request keeps what it read (existingSession, the stats row it found,    *)
(* today); before is the stats and task tables as they were when it        *)
(* started, kept for the properties only.                                  *)
(***************************************************************************)
UpdatePomodoroSessionSelect(input) ==
    /\ NewRid <= MaxRequests
    /\ IF updatePomodoroSessionError(input) = "none"
       THEN /\ reqs' = reqs \cup {[rid |-> NewRid, op |-> "updatePomodoroSession",
                                   pc |-> "update", input |-> input,
                                   existingSession |-> existingSession(input),
                                   today |-> NULL, statsRow |-> NULL, inserted |-> NULL,
                                   error |-> "none", failedAt |-> "none",
                                   before |-> [stats |-> stats, tasks |-> tasks]]}
            /\ last' = last
       ELSE /\ reqs' = reqs
            /\ last' = [op |-> "updatePomodoroSession", error |-> "session_not_found"]
    /\ UNCHANGED <<tasks, events, timeBlocks, reminders, sessions, stats, seq, now, hist, client>>

UpdatePomodoroSessionWrite(r) ==
    /\ r.op = "updatePomodoroSession"
    /\ r.pc = "update"
    /\ sessions' = {IF x.id = r.input.id THEN updatedSession(x, r.input) ELSE x : x \in sessions}
    /\ IF aggregates(r.input)
       THEN /\ reqs' = Finish(r, [r EXCEPT !.pc = "selectStats"])
            /\ last' = last
       ELSE /\ reqs' = Finish(r, [r EXCEPT !.pc = "done"])
            /\ last' = [op |-> "updatePomodoroSession", error |-> "none"]
    /\ UNCHANGED <<tasks, events, timeBlocks, reminders, stats, seq, now, hist, client>>

(* existingStats[0] of a SELECT without ORDER BY: any of the matching rows. *)
UpdatePomodoroSessionSelectStats(r) ==
    /\ r.op = "updatePomodoroSession"
    /\ r.pc = "selectStats"
    /\ \E id \in IF existingStats(r.existingSession) = {}
                 THEN {NULL}
                 ELSE {row.id : row \in existingStats(r.existingSession)} :
           reqs' = Finish(r, [r EXCEPT !.pc = "writeStats", !.today = Today, !.statsRow = id])
    /\ UNCHANGED <<tasks, events, timeBlocks, reminders, sessions, stats, seq, now, last,
                   hist, client>>

insertStatsErrorUnique(r) ==
    IF \E row \in stats : row.user_id = r.existingSession.user_id /\ row.date = r.today
    THEN "unique_violation" ELSE "none"

(* productivity_stats declares no unique constraint on (user_id, date) and
   the users are never deleted: the INSERT is always accepted. *)
insertStatsError(r) == "none"

newStatsRow(r) ==
    [id |-> seq.stats, user_id |-> r.existingSession.user_id, date |-> r.today,
     tasks_completed |-> 0, tasks_created |-> 0,
     total_focus_time |-> r.existingSession.duration, pomodoro_sessions |-> 1,
     events_attended |-> 0]

statsAfterWrite(r) ==
    IF r.statsRow # NULL
    THEN IF \E row \in stats : row.id = r.statsRow
         THEN statsAfterUpdate(r.existingSession, CHOOSE row \in stats : row.id = r.statsRow)
         ELSE stats
    ELSE IF insertStatsError(r) = "none" THEN stats \cup {newStatsRow(r)} ELSE stats

UpdatePomodoroSessionWriteStats(r) ==
    LET err == IF r.statsRow = NULL THEN insertStatsError(r) ELSE "none"
        next == IF err # "none" THEN "done"
                ELSE IF Truthy(r.existingSession.task_id) THEN "updateTask" ELSE "done"
    IN
    /\ r.op = "updatePomodoroSession"
    /\ r.pc = "writeStats"
    /\ stats' = statsAfterWrite(r)
    /\ seq' = IF r.statsRow = NULL THEN [seq EXCEPT !.stats = @ + 1] ELSE seq
    /\ reqs' = Finish(r, [r EXCEPT !.pc = next, !.error = err,
                                   !.failedAt = IF err # "none" THEN "writeStats" ELSE "none",
                                   !.inserted = IF r.statsRow = NULL /\ err = "none"
                                                THEN seq.stats ELSE NULL])
    /\ last' = IF next = "done"
               THEN [op |-> "updatePomodoroSession", error |-> err] ELSE last
    /\ UNCHANGED <<tasks, events, timeBlocks, reminders, sessions, now, hist, client>>

UpdatePomodoroSessionUpdateTask(r) ==
    /\ r.op = "updatePomodoroSession"
    /\ r.pc = "updateTask"
    /\ tasks' = tasksAfterComplete(r.existingSession)
    /\ reqs' = Finish(r, [r EXCEPT !.pc = "done"])
    /\ last' = [op |-> "updatePomodoroSession", error |-> "none"]
    /\ UNCHANGED <<events, timeBlocks, reminders, sessions, stats, seq, now, hist, client>>

sessionsAfterFailureRolledBack(r) ==
    {IF x.id = r.input.id THEN r.existingSession ELSE x : x \in sessions}

(* catch (error) { console.error(...); throw error; }: nothing is undone. *)
sessionsAfterFailure(r) == sessions

(* The store rejects the statement the request is at (connection lost,
   statement timeout, ...): the handler rethrows. *)
StatementFails(r) ==
    /\ r.op = "updatePomodoroSession"
    /\ r.pc \in {"writeStats", "updateTask"}
    /\ sessions' = sessionsAfterFailure(r)
    /\ reqs' = Finish(r, [r EXCEPT !.pc = "done", !.error = "db_error", !.failedAt = r.pc])
    /\ last' = [op |-> "updatePomodoroSession", error |-> "db_error"]
    /\ UNCHANGED <<tasks, events, timeBlocks, reminders, stats, seq, now, hist, client>>

(***************************************************************************)
(* Completions that overlap in time: two requests of user 1's sessions,    *)
(* interleaved at every await.                                             *)
(***************************************************************************)
SessionInputsRace == {i \in SessionInputsLife : i.task_id # 0}

NextRaceStats ==
    \/ CreateTask(1)
    \/ \E input \in SessionInputsRace : CreatePomodoroSession(input)
    \/ \E input \in CompletionUpdates : UpdatePomodoroSessionSelect(input)
    \/ \E r \in reqs : UpdatePomodoroSessionWrite(r)
    \/ \E r \in reqs : UpdatePomodoroSessionSelectStats(r)
    \/ \E r \in reqs : UpdatePomodoroSessionWriteStats(r)
    \/ \E r \in reqs : UpdatePomodoroSessionUpdateTask(r)

SpecRaceStats == InitPomo /\ [][NextRaceStats]_vars

(***************************************************************************)
(* Failing statements: requests run one after the other, and the store may *)
(* reject the stats write or the task update.                              *)
(***************************************************************************)
NoneInFlight == \A r \in reqs : r.pc = "done"

NextFail ==
    \/ CreateTask(1)
    \/ \E input \in SessionInputsRace : CreatePomodoroSession(input)
    \/ \E input \in CompletionUpdates : NoneInFlight /\ UpdatePomodoroSessionSelect(input)
    \/ \E r \in reqs : UpdatePomodoroSessionWrite(r)
    \/ \E r \in reqs : UpdatePomodoroSessionSelectStats(r)
    \/ \E r \in reqs : UpdatePomodoroSessionWriteStats(r)
    \/ \E r \in reqs : UpdatePomodoroSessionUpdateTask(r)
    \/ \E r \in reqs : StatementFails(r)

SpecFail == InitPomo /\ [][NextFail]_vars

(***************************************************************************)
(* The event specification: events are created, edited (any subset of the  *)
(* two times) and deleted, one call at a time, while the clock moves.      *)
(***************************************************************************)
NextEvent ==
    \/ Tick(1)
    \/ \E input \in EventInputs : CreateEvent(input)
    \/ \E input \in EventUpdates : UpdateEvent(input)
    \/ \E e \in EventRefs \ {NULL}, u \in UserIds : DeleteEvent(e, u)

SpecEvent == Init /\ [][NextEvent]_vars

(***************************************************************************)
(* backupUserData SELECT by SELECT: the user check, then the six tables in *)
(* the order of the source, each read seeing the store as it is when the   *)
(* read runs.                                                              *)
(***************************************************************************)
BackupOrder ==
    <<"tasks", "events", "timeBlocks", "pomodoroSessions", "productivityStats", "reminders">>

tableNamed(name) ==
    CASE name = "tasks" -> tasks
      [] name = "events" -> events
      [] name = "timeBlocks" -> timeBlocks
      [] name = "pomodoroSessions" -> sessions
      [] name = "productivityStats" -> stats
      [] name = "reminders" -> reminders

BackupUserDataVerify(userId) ==
    /\ NewRid <= MaxRequests
    /\ IF backupUserDataError(userId) = "none"
       THEN /\ reqs' = reqs \cup {[rid |-> NewRid, op |-> "backupUserData", pc |-> 1,
                                   userId |-> userId,
                                   data |-> [name \in {} |-> {}]]}
            /\ last' = last
       ELSE /\ reqs' = reqs
            /\ last' = [op |-> "backupUserData", error |-> "user_not_found", input |-> userId]
    /\ UNCHANGED <<tasks, events, timeBlocks, reminders, sessions, stats, seq, now, hist, client>>

BackupUserDataSelect(r) ==
    LET name == BackupOrder[r.pc]
        data == [n \in DOMAIN r.data \cup {name} |->
                    IF n = name THEN rowsOf(tableNamed(name), r.userId) ELSE r.data[n]]
    IN
    /\ r.op = "backupUserData"
    /\ r.pc \in 1 .. Len(BackupOrder)
    /\ reqs' = Finish(r, [r EXCEPT !.pc = @ + 1, !.data = data])
    /\ IF r.pc = Len(BackupOrder)
       THEN /\ last' = [op |-> "backupUserData", error |-> "none", input |-> r.userId,
                        result |-> [success |-> TRUE, backupId |-> backupId(r.userId, now),
                                    data |-> [userId |-> r.userId, data |-> data,
                                              createdAt |-> now]]]
            /\ hist' = [hist EXCEPT !.backups = Append(@, backupId(r.userId, now))]
       ELSE /\ last' = last
            /\ hist' = hist
    /\ UNCHANGED <<tasks, events, timeBlocks, reminders, sessions, stats, seq, now, client>>

(***************************************************************************)
(* Backups of user 1 taken while the user creates a task and time blocks.  *)
(***************************************************************************)
TimeBlockInputsSnap ==
    {i \in TimeBlockInputsDel : i.user_id = 1 /\ i.event_id = NULL}

NextSnap ==
    \/ CreateTask(1)
    \/ \E input \in TimeBlockInputsSnap : CreateTimeBlock(input)
    \/ \E t \in TaskRefs \ {NULL} : DeleteTask(t, 1)
    \/ \E u \in UserIds : BackupUserDataVerify(u)
    \/ \E r \in reqs : BackupUserDataSelect(r)

SpecSnap == Init /\ [][NextSnap]_vars

(***************************************************************************)
(* A device that synchronises incrementally: each call passes the          *)
(* lastSyncTimestamp the previous call returned (none on the first call)   *)
(* and keeps the task and event versions it is given.                      *)
(***************************************************************************)
Versions(kind, rows) == {<<kind, x.id, x.updated_at>> : x \in rows}

ClientSync(userId) ==
    LET result == syncUserData(userId, client.lastSyncTimestamp) IN
    /\ client' = [lastSyncTimestamp |-> result.lastSyncTimestamp,
                  received |-> client.received \cup Versions("task", result.tasks)
                                  \cup Versions("event", result.events)]
    /\ last' = [op |-> "syncUserData", error |-> "none",
                input |-> [userId |-> userId, lastSyncTimestamp |-> client.lastSyncTimestamp],
                result |-> result]
    /\ UNCHANGED <<tasks, events, timeBlocks, reminders, sessions, stats, seq, now, hist, reqs>>

NextClient ==
    \/ Tick(1)
    \/ CreateTask(1)
    \/ \E input \in EventInputsBackup : CreateEvent(input)
    \/ \E input \in EventUpdatesSync : UpdateEvent(input)
    \/ ClientSync(1)

SpecClient == Init /\ [][NextClient]_vars

(***************************************************************************)
(* Properties of the time-block validator.                                 *)
(***************************************************************************)
(* Two half-open intervals [s1, e1) and [s2, e2) share an instant. *)
IntervalsOverlap(s1, e1, s2, e2) == s1 < e2 /\ s2 < e1

OverlapsExisting(input) ==
    \E b \in timeBlocks :
        /\ b.user_id = input.user_id
        /\ b.start_time < input.end_time
        /\ b.end_time > input.start_time

RefsBelongToOwner(input) ==
    /\ input.task_id # NULL =>
           \E t \in tasks : t.id = input.task_id /\ t.user_id = input.user_id
    /\ input.event_id # NULL =>
           \E e \in events : e.id = input.event_id /\ e.user_id = input.user_id

Rejected(input) ==
    /\ createTimeBlockError(input) # "none"
    /\ timeBlocksAfterCreate(input) = timeBlocks

(* C1: with createTimeBlock, deleteTask and deleteEvent called one at a time
   from an empty table, no two stored time blocks of one user have
   overlapping half-open intervals [start_time, end_time). *)
C1_NoOverlapPerUser ==
    \A b1 \in timeBlocks : \A b2 \in timeBlocks :
        (b1 # b2 /\ b1.user_id = b2.user_id) =>
            ~IntervalsOverlap(b1.start_time, b1.end_time, b2.start_time, b2.end_time)

C1_Witness ==
    /\ last.op \in {"deleteTask", "deleteEvent"}
    /\ last.error = "none"
    /\ \E b1 \in timeBlocks : \E b2 \in timeBlocks :
           b1 # b2 /\ b1.user_id = b2.user_id

(* C2 as stated: whenever an existing block of the same user overlaps the
   new interval, createTimeBlock fails with the conflict error and persists
   nothing. *)
C2_OverlapGivesConflictError ==
    [][\A input \in TimeBlockInputs :
          (CreateTimeBlock(input) /\ OverlapsExisting(input)) =>
              (last'.error = "conflict" /\ timeBlocks' = timeBlocks)]_vars

(* C2 amended: whenever an existing block of the same user overlaps the new
   interval, createTimeBlock fails and persists nothing; the error is the
   conflict error when the referenced task and event belong to the owner and
   end_time > start_time (those checks come first and throw their own
   errors). *)
C2_OverlapRejected ==
    \A input \in TimeBlockInputs :
        OverlapsExisting(input) =>
            /\ Rejected(input)
            /\ (RefsBelongToOwner(input) /\ input.end_time > input.start_time)
                   => createTimeBlockError(input) = "conflict"

C2_Witness ==
    /\ last.op = "createTimeBlock"
    /\ last.error = "conflict"
    /\ timeBlocks # {}

(* C3: createTimeBlock succeeds and persists the block whenever the owner
   exists, the referenced task and event exist and belong to the owner,
   end_time > start_time and every block of the same user ends at or before
   the new start or starts at or after the new end; adjacent blocks are
   accepted. *)
C3_NonOverlappingAccepted ==
    \A input \in TimeBlockInputs :
        ( /\ input.user_id \in Users
          /\ RefsBelongToOwner(input)
          /\ input.end_time > input.start_time
          /\ \A b \in timeBlocks :
                 b.user_id = input.user_id =>
                     (b.end_time <= input.start_time \/ b.start_time >= input.end_time) )
        => /\ createTimeBlockError(input) = "none"
           /\ timeBlocksAfterCreate(input) = timeBlocks \cup {NewBlock(input)}
           /\ NewBlock(input) \notin timeBlocks

C3_Witness ==
    /\ last.op = "createTimeBlock"
    /\ last.error = "none"
    /\ \E b1 \in timeBlocks : \E b2 \in timeBlocks :
           /\ b1.user_id = b2.user_id
           /\ b1.end_time = b2.start_time
           /\ b2.id = seq.timeBlocks - 1

(* C4: only blocks of the same user count in the overlap check: when no
   block of the input's own user overlaps it, createTimeBlock does not fail
   with the conflict error, whatever blocks other users have. *)
C4_OtherUsersNeverConflict ==
    \A input \in TimeBlockInputs :
        createTimeBlockError(input) = "conflict" => OverlapsExisting(input)

C4_Witness ==
    /\ last.op = "createTimeBlock"
    /\ last.error = "none"
    /\ \E b1 \in timeBlocks : \E b2 \in timeBlocks :
           /\ b1.user_id # b2.user_id
           /\ b2.id = seq.timeBlocks - 1
           /\ IntervalsOverlap(b1.start_time, b1.end_time, b2.start_time, b2.end_time)

(* C5 as stated: every input with end_time <= start_time is rejected with
   the invalid-time-range error and nothing is persisted. *)
C5_InvalidRangeGivesRangeError ==
    [][\A input \in TimeBlockInputs :
          (CreateTimeBlock(input) /\ input.end_time <= input.start_time) =>
              (last'.error = "invalid_range" /\ timeBlocks' = timeBlocks)]_vars

(* C5 amended: every input with end_time <= start_time (start = end
   included) is rejected and nothing is persisted, whether or not it
   overlaps an existing block; the error is the invalid-time-range error
   when the owner exists and the referenced task and event belong to the
   owner (those checks come first and throw their own errors). *)
C5_InvalidRangeRejected ==
    \A input \in TimeBlockInputs :
        input.end_time <= input.start_time =>
            /\ Rejected(input)
            /\ (input.user_id \in Users /\ RefsBelongToOwner(input))
                   => createTimeBlockError(input) = "invalid_range"

C5_Witness ==
    /\ last.op = "createTimeBlock"
    /\ last.error = "invalid_range"
    /\ \E input \in TimeBlockInputs :
           /\ input.end_time <= input.start_time
           /\ OverlapsExisting(input)
           /\ createTimeBlockError(input) = "invalid_range"

(* C6: createTimeBlock fails and persists nothing when the owner does not
   exist, or a referenced task or event does not exist or belongs to
   another user. *)
C6_BadReferenceRejected ==
    \A input \in TimeBlockInputs :
        (input.user_id \notin Users \/ ~RefsBelongToOwner(input)) => Rejected(input)

C6_Witness ==
    /\ last.op = "createTimeBlock"
    /\ last.error = "task_not_found"
    /\ \E t \in tasks : \E input \in TimeBlockInputs :
           /\ input.task_id = t.id
           /\ input.user_id \in Users
           /\ input.user_id # t.user_id
           /\ createTimeBlockError(input) = "task_not_found"

(***************************************************************************)
(* Properties of the Pomodoro completion path.                             *)
(***************************************************************************)
RECURSIVE SumDuration(_)
SumDuration(calls) ==
    IF calls = {} THEN 0
    ELSE LET c == CHOOSE x \in calls : TRUE IN c.duration + SumDuration(calls \ {c})

Days == 0 .. DayOf(MaxNow)

(* The completing calls made so far for sessions of user u on day d. *)
CallsOn(u, d) == {c \in hist.calls : c.user_id = u /\ c.day = d}

(* Each session of `calls` has been completed exactly once. *)
EachOnce(calls) == \A c \in calls : {x \in hist.calls : x.id = c.id} = {c}

(* What the stats table held for (u, d) before any call. *)
PriorFocus(u, d) ==
    IF \E r \in hist.seed : r.user_id = u /\ r.date = d
    THEN (CHOOSE r \in hist.seed : r.user_id = u /\ r.date = d).total_focus_time
    ELSE 0

PriorCount(u, d) ==
    IF \E r \in hist.seed : r.user_id = u /\ r.date = d
    THEN (CHOOSE r \in hist.seed : r.user_id = u /\ r.date = d).pomodoro_sessions
    ELSE 0

(* C7: with updatePomodoroSession called one at a time, the stats table
   never holds two rows for the same (user, day). *)
C7_OneStatsRowPerUserDay ==
    \A r1 \in stats : \A r2 \in stats :
        (r1.user_id = r2.user_id /\ r1.date = r2.date) => r1 = r2

C7_Witness ==
    /\ last.op = "updatePomodoroSession"
    /\ hist.seed = {}
    /\ \E u \in Users :
           /\ Cardinality(CallsOn(u, 1)) >= 2
           /\ Cardinality({r \in stats : r.user_id = u}) = 1

(* C8: completing a session of duration D of owner U creates, when U has
   no stats row for today, a row with total_focus_time = D,
   pomodoro_sessions = 1 and the other counters 0; when a row exists, its
   total_focus_time grows by D and its pomodoro_sessions by 1, and
   tasks_completed, tasks_created and events_attended keep their values.
   No other row changes. *)
C8_CompletionUpsertsStats ==
    \A s \in sessions :
        LET mine == {r \in stats : r.user_id = s.user_id /\ r.date = Today} IN
        \A after \in statsAfterUpsert(s) :
            IF mine = {}
            THEN \E r \in after :
                     /\ r \notin stats
                     /\ after \ {r} = stats
                     /\ r.user_id = s.user_id
                     /\ r.date = Today
                     /\ r.total_focus_time = s.duration
                     /\ r.pomodoro_sessions = 1
                     /\ r.tasks_completed = 0
                     /\ r.tasks_created = 0
                     /\ r.events_attended = 0
            ELSE \E old \in mine : \E new \in after :
                     /\ after \ {new} = stats \ {old}
                     /\ new.id = old.id
                     /\ new.user_id = old.user_id
                     /\ new.date = old.date
                     /\ new.total_focus_time = old.total_focus_time + s.duration
                     /\ new.pomodoro_sessions = old.pomodoro_sessions + 1
                     /\ new.tasks_completed = old.tasks_completed
                     /\ new.tasks_created = old.tasks_created
                     /\ new.events_attended = old.events_attended

C8_Witness ==
    /\ last.op = "updatePomodoroSession"
    /\ last.error = "none"
    /\ \E r \in stats : r.tasks_completed = 2 /\ r.pomodoro_sessions = 3
    /\ \E r \in stats : r.tasks_completed = 0 /\ r.pomodoro_sessions = 1

(* C9: after n distinct sessions of a user are completed on one day, one
   call after another and each session once, the user's stats row for that
   day holds the prior total_focus_time plus the sum of the n durations and
   the prior pomodoro_sessions plus n. *)
C9_CompletionsAccumulate ==
    \A u \in Users : \A d \in Days :
        (CallsOn(u, d) # {} /\ EachOnce(CallsOn(u, d))) =>
            \E r \in stats :
                /\ r.user_id = u
                /\ r.date = d
                /\ r.total_focus_time = PriorFocus(u, d) + SumDuration(CallsOn(u, d))
                /\ r.pomodoro_sessions = PriorCount(u, d) + Cardinality(CallsOn(u, d))

C9_Witness ==
    /\ hist.seed # {}
    /\ \E c1 \in CallsOn(1, 0) : \E c2 \in CallsOn(1, 0) :
           c1.id # c2.id /\ c1.duration # c2.duration
    /\ EachOnce(CallsOn(1, 0))

(* C10: completing a session that references a task sets the task's
   actual_duration to its previous value (null counted as 0) plus the
   session's duration and leaves every other task alone; completing a
   session with no task changes no task. *)
C10_CompletionAddsTaskDuration ==
    \A s \in sessions :
        LET after == tasksAfterComplete(s) IN
        IF s.task_id = NULL
        THEN after = tasks
        ELSE /\ \E t \in tasks : t.id = s.task_id
             /\ \A t \in tasks :
                    IF t.id = s.task_id
                    THEN \E t2 \in after :
                             /\ t2.id = t.id
                             /\ t2.user_id = t.user_id
                             /\ t2.actual_duration =
                                    (IF t.actual_duration = NULL THEN 0 ELSE t.actual_duration)
                                        + s.duration
                    ELSE t \in after
             /\ Cardinality(after) = Cardinality(tasks)

C10_Witness ==
    /\ last.op = "updatePomodoroSession"
    /\ last.error = "none"
    /\ \E s \in sessions : \E t \in tasks :
           /\ s.task_id = t.id
           /\ s.status = "completed"
           /\ t.actual_duration > s.duration
    /\ \E c \in hist.calls : \E s \in sessions : s.id = c.id /\ s.task_id = NULL

(***************************************************************************)
(* Properties of the session life cycle.                                   *)
(***************************************************************************)
ActualDurations(taskTable) == {<<t.id, t.actual_duration>> : t \in taskTable}

StoredStatus(id) == {s.status : s \in {x \in sessions : x.id = id}}

(* C11: an update whose status is paused, running or cancelled leaves the
   stats table as it is (no row created, none changed) and leaves every
   task's actual_duration as it is. *)
C11_NoAggregationUnlessCompleted ==
    \A input \in SessionUpdates :
        input.status \in {"paused", "running", "cancelled"} =>
            /\ statsAfterUpdateSession(input) = {stats}
            /\ ActualDurations(tasksAfterUpdateSession(input)) = ActualDurations(tasks)

C11_Witness ==
    /\ last.op = "updatePomodoroSession"
    /\ last.error = "none"
    /\ sessions # {}
    /\ \A s \in sessions :
           /\ s.status = "cancelled"
           /\ \E t \in tasks : t.id = s.task_id /\ t.actual_duration = NULL
    /\ stats = {}
    /\ hist.calls = {}

(* C12 as stated: once the stored status of a session is completed or
   cancelled, no later step changes that session's status. *)
C12_TerminalStatusesStay ==
    [][\A s \in sessions :
          s.status \in {"completed", "cancelled"} =>
              \A s2 \in sessions' : s2.id = s.id => s2.status = s.status]_vars

(* C13 as stated: an update with status completed on a session whose stored
   status is already completed changes neither the stats table nor any
   task's actual_duration. *)
C13_RecompletionAddsNothing ==
    [][\A input \in SessionUpdates :
          (/\ input.status = "completed"
           /\ StoredStatus(input.id) = {"completed"}
           /\ UpdatePomodoroSession(input)) =>
              (stats' = stats /\ ActualDurations(tasks') = ActualDurations(tasks))]_vars

(* C14: an update whose id matches no session fails with the not-found
   error and leaves sessions, stats and tasks unchanged. *)
C14_UnknownSessionChangesNothing ==
    \A input \in SessionUpdates :
        (~ \E s \in sessions : s.id = input.id) =>
            /\ updatePomodoroSessionError(input) = "session_not_found"
            /\ sessionsAfterUpdateSession(input) = sessions
            /\ statsAfterUpdateSession(input) = {stats}
            /\ tasksAfterUpdateSession(input) = tasks

C14_Witness ==
    /\ last.op = "updatePomodoroSession"
    /\ last.error = "session_not_found"
    /\ \E s \in sessions : s.status = "running" /\ Truthy(s.task_id)
    /\ stats # {}

(* C15: an update that sets status completed stores the caller's
   completed_at when a date is given and the current time when it is
   omitted or null; every session whose stored status is completed has a
   non-null completed_at. *)
C15_CompletedAtSet ==
    /\ \A input \in SessionUpdates :
           (input.status = "completed" /\ updatePomodoroSessionError(input) = "none") =>
               \E s \in sessionsAfterUpdateSession(input) :
                   /\ s.id = input.id
                   /\ s.status = "completed"
                   /\ s.completed_at = (IF input.completed_at \in {UNDEF, NULL}
                                        THEN now ELSE input.completed_at)
    /\ \A s \in sessions : s.status = "completed" => s.completed_at \notin {UNDEF, NULL}

C15_Witness ==
    /\ last.op = "updatePomodoroSession"
    /\ last.error = "none"
    /\ \E s \in sessions :
           s.status = "completed" /\ s.completed_at < s.created_at
    /\ \E s \in sessions :
           s.status = "completed" /\ s.completed_at = now /\ now > 0

(***************************************************************************)
(* Properties of reminders and of the delete handlers.                     *)
(***************************************************************************)
(* C16: createReminder fails, persisting nothing, when task_id and event_id
   are both set and when neither is set; every stored reminder links to
   exactly one of a task and an event. *)
C16_ExactlyOneLink ==
    /\ \A input \in ReminderInputs :
           ((input.task_id # NULL) = (input.event_id # NULL)) =>
               /\ createReminderError(input) # "none"
               /\ remindersAfterCreate(input) = reminders
    /\ \A r \in reminders : (r.task_id # NULL) # (r.event_id # NULL)

C16_Witness ==
    /\ last.op = "createReminder"
    /\ last.error = "validation"
    /\ tasks # {}
    /\ events # {}
    /\ \E r \in reminders : r.task_id # NULL
    /\ \E r \in reminders : r.event_id # NULL

(* C17: deleteTask fails with the not-found error when no task has the given
   id and owner (missing, or another user's), and then the task table, the
   reminders, the time blocks and the sessions are unchanged. *)
C17_ForeignTaskNotDeleted ==
    \A taskId \in TaskRefs \ {NULL} : \A userId \in UserIds :
        (~ \E t \in tasks : t.id = taskId /\ t.user_id = userId) =>
            /\ deleteTaskError(taskId, userId) = "task_not_found"
            /\ tasksAfterDeleteTask(taskId, userId) = tasks
            /\ remindersAfterDeleteTask(taskId, userId) = reminders
            /\ timeBlocksAfterDeleteTask(taskId, userId) = timeBlocks
            /\ sessionsAfterDeleteTask(taskId, userId) = sessions

C17_Witness ==
    /\ last.op = "deleteTask"
    /\ last.error = "task_not_found"
    /\ \E t \in tasks :
           /\ \E r \in reminders : r.task_id = t.id
           /\ \E b \in timeBlocks : b.task_id = t.id

(* C18: after a successful deleteTask the task is gone and no reminder, time
   block or session refers to it; after a successful deleteEvent the event
   is gone and no reminder or time block refers to it; in both cases the
   other tasks and events, and the rows that did not refer to the deleted
   row, are as before. *)
C18_DeleteCascades ==
    /\ \A taskId \in TaskRefs \ {NULL} : \A userId \in UserIds :
           deleteTaskError(taskId, userId) = "none" =>
               /\ tasksAfterDeleteTask(taskId, userId) = {t \in tasks : t.id # taskId}
               /\ remindersAfterDeleteTask(taskId, userId) =
                      {r \in reminders : r.task_id # taskId}
               /\ timeBlocksAfterDeleteTask(taskId, userId) =
                      {b \in timeBlocks : b.task_id # taskId}
               /\ sessionsAfterDeleteTask(taskId, userId) =
                      {s \in sessions : s.task_id # taskId}
    /\ \A eventId \in EventRefs \ {NULL} : \A userId \in UserIds :
           deleteEventSuccess(eventId, userId) =>
               /\ eventsAfterDeleteEvent(eventId, userId) = {e \in events : e.id # eventId}
               /\ remindersAfterDeleteEvent(eventId, userId) =
                      {r \in reminders : r.event_id # eventId}
               /\ timeBlocksAfterDeleteEvent(eventId, userId) =
                      {b \in timeBlocks : b.event_id # eventId}
    /\ \A r \in reminders :
           /\ r.task_id # NULL => \E t \in tasks : t.id = r.task_id
           /\ r.event_id # NULL => \E e \in events : e.id = r.event_id
    /\ \A b \in timeBlocks :
           /\ b.task_id # NULL => \E t \in tasks : t.id = b.task_id
           /\ b.event_id # NULL => \E e \in events : e.id = b.event_id
    /\ \A s \in sessions : s.task_id # NULL => \E t \in tasks : t.id = s.task_id

C18_Witness ==
    /\ last.op = "deleteTask"
    /\ last.error = "none"
    /\ tasks = {}
    /\ \E r \in reminders : r.event_id # NULL /\ r.id = 2
    /\ \E b \in timeBlocks : b.event_id # NULL /\ b.task_id = NULL
    /\ \E s \in sessions : s.task_id = NULL /\ s.id = 2

(* C19: deleteEvent succeeds exactly when an event with the given id
   belongs to the given user, and then removes it; otherwise it reports
   success = false and no event, reminder or time block changes. *)
C19_DeleteEventOwnerOnly ==
    \A eventId \in EventRefs \ {NULL} : \A userId \in UserIds :
        LET owned == \E e \in events : e.id = eventId /\ e.user_id = userId IN
        /\ deleteEventSuccess(eventId, userId) = owned
        /\ owned => ~ \E e \in eventsAfterDeleteEvent(eventId, userId) : e.id = eventId
        /\ ~owned =>
               /\ eventsAfterDeleteEvent(eventId, userId) = events
               /\ remindersAfterDeleteEvent(eventId, userId) = reminders
               /\ timeBlocksAfterDeleteEvent(eventId, userId) = timeBlocks

C19_Witness ==
    /\ last.op = "deleteEvent"
    /\ last.error = "no_success"
    /\ \E e \in events :
           /\ \E r \in reminders : r.event_id = e.id
           /\ \E b \in timeBlocks : b.event_id = e.id

(***************************************************************************)
(* Properties of synchronisation.                                          *)
(***************************************************************************)
After(t, w) == w = UNDEF \/ t > w

(* C20: a syncUserData(userId, W) call returns exactly the user's tasks and
   events whose updated_at is after W and the user's time blocks and
   sessions whose created_at is after W (all of the user's rows without W),
   no row of another user, and the time of the call as new watermark. *)
C20_SyncReturnsNewerOwnRows ==
    [][(last'.op = "syncUserData" /\ now' = now) =>
          LET u == last'.input.userId
              w == last'.input.lastSyncTimestamp
              r == last'.result
          IN /\ r.tasks = {t \in tasks' : t.user_id = u /\ After(t.updated_at, w)}
             /\ r.events = {e \in events' : e.user_id = u /\ After(e.updated_at, w)}
             /\ r.timeBlocks = {b \in timeBlocks' : b.user_id = u /\ After(b.created_at, w)}
             /\ r.pomodoroSessions =
                    {p \in sessions' : p.user_id = u /\ After(p.created_at, w)}
             /\ \A x \in r.tasks \cup r.events \cup r.timeBlocks \cup r.pomodoroSessions :
                    x.user_id = u
             /\ r.lastSyncTimestamp = now']_vars

C20_Witness ==
    /\ last.op = "syncUserData"
    /\ last.input.lastSyncTimestamp = 0
    /\ last.result.lastSyncTimestamp = 2
    /\ last.result.events # {}
    /\ last.result.timeBlocks # {}
    /\ \E t \in tasks : t.user_id = last.input.userId /\ t \notin last.result.tasks
    /\ \E p \in sessions : p.user_id # last.input.userId /\ p.created_at > 0
    /\ \E e \in last.result.events : \E t \in tasks : e.updated_at > t.updated_at

(***************************************************************************)
(* Properties of backups.                                                  *)
(***************************************************************************)
(* C21: a backupUserData(userId) call fails with the not-found error when
   the user does not exist; otherwise its snapshot holds exactly that
   user's rows of the six tables and no row of another user; in both cases
   no table changes. *)
C21_BackupHoldsOwnRows ==
    [][(last'.op = "backupUserData" /\ now' = now) =>
          LET u == last'.input IN
          /\ <<tasks, events, timeBlocks, sessions, stats, reminders>>' =
                 <<tasks, events, timeBlocks, sessions, stats, reminders>>
          /\ IF u \notin Users
             THEN last'.error = "user_not_found"
             ELSE LET d == last'.result.data.data IN
                  /\ last'.error = "none"
                  /\ last'.result.data.userId = u
                  /\ d.tasks = {t \in tasks : t.user_id = u}
                  /\ d.events = {e \in events : e.user_id = u}
                  /\ d.timeBlocks = {b \in timeBlocks : b.user_id = u}
                  /\ d.pomodoroSessions = {p \in sessions : p.user_id = u}
                  /\ d.productivityStats = {r \in stats : r.user_id = u}
                  /\ d.reminders = {r \in reminders : r.user_id = u}]_vars

C21_Witness ==
    /\ last.op = "backupUserData"
    /\ last.error = "none"
    /\ LET d == last.result.data.data IN
       /\ d.tasks # {}
       /\ d.events # {}
       /\ d.timeBlocks # {}
       /\ d.pomodoroSessions # {}
       /\ d.productivityStats # {}
       /\ d.reminders # {}
    /\ \E b \in timeBlocks : b.user_id # last.input
    /\ \E p \in sessions : p.user_id # last.input

(* C22 as stated: no two backupUserData calls return the same backupId. *)
C22_BackupIdsUnique ==
    \A i \in 1 .. Len(hist.backups) : \A j \in 1 .. Len(hist.backups) :
        i # j => hist.backups[i] # hist.backups[j]

(***************************************************************************)
(* Properties of requests that overlap in time.                            *)
(***************************************************************************)
BothCheckedFirst(r1, r2) == r1.checkedAt <= r2.insertAt /\ r2.checkedAt <= r1.insertAt

(* C23: two createTimeBlock requests of one user with overlapping intervals
   that both ran their overlap check before either inserted are both
   persisted (the insert does not look at the intervals again); only the
   removal of a task they refer to keeps a block out of the table. *)
C23_RacingBlocksBothStored ==
    \A r1 \in reqs : \A r2 \in reqs :
        (/\ r1.rid # r2.rid
         /\ r1.op = "createTimeBlock" /\ r2.op = "createTimeBlock"
         /\ r1.pc = "done" /\ r2.pc = "done"
         /\ BothCheckedFirst(r1, r2)) =>
            \A r \in {r1, r2} :
                \/ /\ r.error = "none"
                   /\ \E b \in timeBlocks :
                          /\ b.id = r.insertAt
                          /\ b.user_id = r.input.user_id
                          /\ b.start_time = r.input.start_time
                          /\ b.end_time = r.input.end_time
                \/ r.input.task_id # NULL /\ r.input.task_id \notin TaskIds

C23_Witness ==
    \E b1 \in timeBlocks : \E b2 \in timeBlocks :
        /\ b1.id # b2.id
        /\ b1.user_id = b2.user_id
        /\ IntervalsOverlap(b1.start_time, b1.end_time, b2.start_time, b2.end_time)
        /\ \E r1 \in reqs : \E r2 \in reqs :
               /\ r1.pc = "done" /\ r2.pc = "done"
               /\ r1.insertAt = b1.id /\ r2.insertAt = b2.id
               /\ BothCheckedFirst(r1, r2)

ReadNoStatsRow(r) ==
    /\ r.op = "updatePomodoroSession"
    /\ r.today # NULL
    /\ r.statsRow = NULL
    /\ r.pc \in {"updateTask", "done"}

(* C24: two completing requests for sessions of one user on one day that
   both found no stats row for that day each insert one: the table then
   holds two rows for that user and day. *)
C24_RacingCompletionsBothInsert ==
    \A r1 \in reqs : \A r2 \in reqs :
        (/\ r1.rid # r2.rid
         /\ ReadNoStatsRow(r1) /\ ReadNoStatsRow(r2)
         /\ r1.existingSession.user_id = r2.existingSession.user_id
         /\ r1.today = r2.today) =>
            /\ r1.inserted # r2.inserted
            /\ \A r \in {r1, r2} :
                   \E row \in stats :
                       /\ row.id = r.inserted
                       /\ row.user_id = r.existingSession.user_id
                       /\ row.date = r.today

C24_Witness ==
    /\ \E row1 \in stats : \E row2 \in stats :
           row1.id # row2.id /\ row1.user_id = row2.user_id /\ row1.date = row2.date
    /\ \E r1 \in reqs : \E r2 \in reqs :
           r1.rid # r2.rid /\ ReadNoStatsRow(r1) /\ ReadNoStatsRow(r2)

(***************************************************************************)
(* Properties of failing statements.                                       *)
(***************************************************************************)
LatestRequest == CHOOSE r \in reqs : \A x \in reqs : x.rid <= r.rid

Rejected25 ==
    /\ last.op = "updatePomodoroSession"
    /\ last.error = "db_error"
    /\ NoneInFlight

SessionStaysCompleted(r) ==
    \E x \in sessions : x.id = r.input.id /\ x.status = "completed"

LinkedTaskAsBefore(r) ==
    \A t \in tasks : \A t0 \in r.before.tasks :
        (t.id = t0.id /\ t.id = r.existingSession.task_id) =>
            t.actual_duration = t0.actual_duration

StatsRowAdded(r) ==
    LET prior == {row \in r.before.stats :
                     row.user_id = r.existingSession.user_id /\ row.date = r.today}
        mine == {row \in stats :
                     row.user_id = r.existingSession.user_id /\ row.date = r.today}
    IN /\ {row \in stats : row \notin mine} = {row \in r.before.stats : row \notin prior}
       /\ Cardinality(mine) = 1
       /\ \A row \in mine :
              IF prior = {}
              THEN /\ row.total_focus_time = r.existingSession.duration
                   /\ row.pomodoro_sessions = 1
              ELSE \E p \in prior :
                      /\ row.total_focus_time = p.total_focus_time + r.existingSession.duration
                      /\ row.pomodoro_sessions = p.pomodoro_sessions + 1

(* C25 as stated: when the stats write or the task update of a completing
   call fails, the call is rejected, the session stays completed, and
   neither the stats table nor the task's actual_duration has changed. *)
C25_FailureLeavesStatsAndTask ==
    Rejected25 =>
        /\ SessionStaysCompleted(LatestRequest)
        /\ stats = LatestRequest.before.stats
        /\ LinkedTaskAsBefore(LatestRequest)

(* C25 amended: when the stats write fails, the session stays completed and
   neither the stats table nor the task has changed; when the task update
   fails, the session stays completed, the task has not changed and the
   stats row has been added to: nothing that was written is undone. *)
C25_NothingUndone ==
    Rejected25 =>
        /\ SessionStaysCompleted(LatestRequest)
        /\ LinkedTaskAsBefore(LatestRequest)
        /\ LatestRequest.failedAt = "writeStats" => stats = LatestRequest.before.stats
        /\ LatestRequest.failedAt = "updateTask" => StatsRowAdded(LatestRequest)

C25_Witness ==
    /\ Rejected25
    /\ LatestRequest.failedAt = "updateTask"
    /\ LatestRequest.existingSession.status = "running"
    /\ stats # LatestRequest.before.stats
    /\ \E t \in tasks :
           t.id = LatestRequest.existingSession.task_id /\ t.actual_duration = NULL

(***************************************************************************)
(* Properties of events.                                                   *)
(***************************************************************************)
(* C26 as stated: every stored event has start_time < end_time. *)
C26_EventsStartBeforeEnd ==
    \A e \in events : e.start_time < e.end_time

(***************************************************************************)
(* Further properties of sessions.                                         *)
(***************************************************************************)
(* C27 as stated: a completing update changes the actual_duration only of a
   task owned by the owner of the session. *)
C27_OnlyOwnTaskChanges ==
    [][\A input \in SessionUpdates :
          (updatePomodoroSessionError(input) = "none" /\ UpdatePomodoroSession(input)) =>
              \A t \in tasks : \A t2 \in tasks' :
                  (t2.id = t.id /\ t2.actual_duration # t.actual_duration) =>
                      t.user_id = existingSession(input).user_id]_vars

(* C30 as stated: a session whose status is running or paused has
   completed_at = null. *)
C30_OpenSessionsHaveNoCompletedAt ==
    \A s \in sessions : s.status \in {"running", "paused"} => s.completed_at = NULL

(***************************************************************************)
(* Properties of backups taken while other requests run.                   *)
(***************************************************************************)
(* C28 as stated: in every finished backup, each time block that has a
   task_id (an event_id) refers to a task (an event) of the same backup. *)
C28_SnapshotConsistent ==
    \A r \in reqs :
        (r.op = "backupUserData" /\ r.pc > Len(BackupOrder)) =>
            \A b \in r.data["timeBlocks"] :
                /\ b.task_id # NULL => \E t \in r.data["tasks"] : t.id = b.task_id
                /\ b.event_id # NULL => \E e \in r.data["events"] : e.id = b.event_id

(***************************************************************************)
(* Properties of incremental synchronisation.                              *)
(***************************************************************************)
(* C29 as stated: no write is lost.  A stored task or event version of the
   user whose updated_at is not after the device's watermark can be
   returned by no later call, so it must already have been received. *)
C29_NoWriteLost ==
    client.lastSyncTimestamp # UNDEF =>
        \A v \in Versions("task", {t \in tasks : t.user_id = 1})
                  \cup Versions("event", {e \in events : e.user_id = 1}) :
            v[3] <= client.lastSyncTimestamp => v \in client.received

====
